---- MODULE Spec2Model ----
(***************************************************************************)
(* Monte Carlo Tree Search for tic-tac-toe: the game classes OXOState      *)
(* (mcts.py) and TicTacToe (mcts_gt.py), the tree engine UCT (mcts.py)     *)
(* and the graph engine MCTS / GameTree (mcts_gt.py).                      *)
(*                                                                         *)
(* Conventions.  Board cells keep the source's indices 0..8.  A score      *)
(* (0.0, 0.5, 1.0) and every sum of scores is stored doubled, as an        *)
(* integer (0, 1, 2): the sums are exact in binary floating point, so      *)
(* nothing is lost.  Python's None is the value None below.                *)
(***************************************************************************)
EXTENDS Integers, Sequences, FiniteSets, TLC

\* Python's None (TicTacToe.whose_move of a finished game, GetResult of an
\* unfinished one, the parent of a root).
None == -1

Cells == 0..8

\* The eight lines of three, in the order both GetResult loops test them.
Lines ==
  << <<0, 1, 2>>, <<3, 4, 5>>, <<6, 7, 8>>,
     <<0, 3, 6>>, <<1, 4, 7>>, <<2, 5, 8>>,
     <<0, 4, 8>>, <<2, 4, 6>> >>

\* board[x] == board[y] == board[z] != 0
LineComplete(board, l) ==
  /\ board[l[1]] = board[l[2]]
  /\ board[l[2]] = board[l[3]]
  /\ board[l[3]] # 0

\* The first complete line in test order (0 when there is none).
FirstLine(board) ==
  IF \E i \in 1..Len(Lines) : LineComplete(board, Lines[i])
  THEN CHOOSE i \in 1..Len(Lines) :
         /\ LineComplete(board, Lines[i])
         /\ \A j \in 1..(i - 1) : ~LineComplete(board, Lines[j])
  ELSE 0

EmptyBoard == [c \in Cells |-> 0]

(***************************************************************************)
(* OXOState (mcts.py), as a value: [playerJustMoved, gameOver, board].     *)
(***************************************************************************)
OXOInit == [playerJustMoved |-> 2, gameOver |-> FALSE, board |-> EmptyBoard]

\* OXOState.GetMoves: the list of empty cells in ascending order, here the
\* set of its elements.
OXOGetMoves(st) ==
  IF st.gameOver THEN {} ELSE {i \in Cells : st.board[i] = 0}

\* OXOState.GetResult(playerjm), doubled; None while the game goes on.
OXOGetResult(st, playerjm) ==
  LET k == FirstLine(st.board) IN
  IF k # 0
  THEN (IF st.board[Lines[k][1]] = playerjm THEN 2 ELSE 0)
  ELSE IF OXOGetMoves(st) = {} THEN 1 ELSE None

\* The assertion that opens OXOState.DoMove.
OXOMoveAccepted(st, move) ==
  move >= 0 /\ move <= 8 /\ st.board[move] = 0

\* OXOState.DoMove without its last two lines: gameOver is never set.
OXODoMoveNeverOver(st, move) ==
  LET pjm == 3 - st.playerJustMoved
  IN [st EXCEPT !.playerJustMoved = pjm, !.board[move] = pjm]

\* OXOState.DoMove past its assertion.
OXODoMove(st, move) ==
  LET pjm == 3 - st.playerJustMoved
      moved == [st EXCEPT !.playerJustMoved = pjm, !.board[move] = pjm]
  IN IF OXOGetResult(moved, pjm) # None
     THEN [moved EXCEPT !.gameOver = TRUE]
     ELSE moved

\* OXOState.Clone: a fresh OXOState() with playerJustMoved and board copied.
OXOClone(st) ==
  [OXOInit EXCEPT !.playerJustMoved = st.playerJustMoved, !.board = st.board]

(***************************************************************************)
(* TicTacToe (mcts_gt.py), as a value:                                     *)
(* [game_over, whose_move, board, available_moves].                        *)
(***************************************************************************)
TTTInit ==
  [game_over |-> FALSE, whose_move |-> 1, board |-> EmptyBoard,
   available_moves |-> {i \in Cells : EmptyBoard[i] = 0}]

\* TicTacToe.get_moves ({} of a finished game).
TTTGetMoves(st) == IF st.game_over THEN {} ELSE st.available_moves

\* The dict TicTacToe.get_result returns, scores doubled; the empty dict is
\* the empty function <<>>.
NoResult == <<>>
P1Wins == (1 :> 2) @@ (2 :> 0)
P2Wins == (1 :> 0) @@ (2 :> 2)
Draw == (1 :> 1) @@ (2 :> 1)

\* TicTacToe.get_result: its returned dict.
TTTGetResult(st) ==
  LET k == FirstLine(st.board) IN
  IF k # 0
  THEN (IF st.board[Lines[k][1]] = 1 THEN P1Wins ELSE P2Wins)
  ELSE IF TTTGetMoves(st) = {} THEN Draw ELSE NoResult

\* TicTacToe.get_result also sets game_over when a line is complete.
TTTAfterGetResult(st) ==
  IF FirstLine(st.board) # 0 THEN [st EXCEPT !.game_over = TRUE] ELSE st

\* The assertion that opens TicTacToe.do_move.
TTTMoveAccepted(st, move) ==
  move >= 0 /\ move <= 8 /\ st.board[move] = 0

\* TicTacToe.do_move without available_moves.remove(move).
TTTDoMoveKeepsMove(st, move) ==
  LET moved == [st EXCEPT !.board[move] = st.whose_move]
      seen == TTTAfterGetResult(moved)
  IN IF TTTGetResult(moved) # NoResult
     THEN [seen EXCEPT !.game_over = TRUE, !.whose_move = None]
     ELSE [seen EXCEPT !.whose_move = 3 - moved.whose_move]

\* TicTacToe.do_move past its assertion.
TTTDoMove(st, move) ==
  LET moved == [st EXCEPT !.board[move] = st.whose_move,
                          !.available_moves = @ \ {move}]
      seen == TTTAfterGetResult(moved)
  IN IF TTTGetResult(moved) # NoResult
     THEN [seen EXCEPT !.game_over = TRUE, !.whose_move = None]
     ELSE [seen EXCEPT !.whose_move = 3 - moved.whose_move]

\* TicTacToe.clone (and deepcopy of a TicTacToe): every attribute copied.
TTTClone(st) ==
  [game_over |-> st.game_over, whose_move |-> st.whose_move,
   board |-> st.board, available_moves |-> st.available_moves]

\* str(x) of one board cell.
Str(x) ==
  CASE x = 0 -> "0"
    [] x = 1 -> "1"
    [] x = 2 -> "2"
    [] OTHER -> "None"

\* TicTacToe.to_name: "".join([str(x) for x in self.board]).
ToName(st) ==
  Str(st.board[0]) \o Str(st.board[1]) \o Str(st.board[2]) \o
  Str(st.board[3]) \o Str(st.board[4]) \o Str(st.board[5]) \o
  Str(st.board[6]) \o Str(st.board[7]) \o Str(st.board[8])

(***************************************************************************)
(* The game objects on the heap.  A Python list or set is a mutable        *)
(* container that an attribute refers to: heap maps an address to the      *)
(* container's content and an object holds addresses, so that two objects  *)
(* sharing a container is a state the model can be in.                     *)
(***************************************************************************)
VARIABLES
  klass,      \* the game class under test: "OXOState" or "TicTacToe"
  heap,       \* address -> content of the list / set stored there
  orig,       \* the object built by the constructor and moved by DoMove
  twin,       \* the object Clone returned (Unbound before Clone is called)
  last,       \* the last call: operation, receiver, argument, whether it raised
  calls,      \* calls made since Clone returned
  overMoves   \* moves applied so far that the receiver's GetMoves() did not offer

gameVars == <<klass, heap, orig, twin, last, calls, overMoves>>

(***************************************************************************)
(* The two search engines.  Both are called with a root state and an       *)
(* iteration count, and run one iteration after the other.                 *)
(***************************************************************************)
VARIABLES
  engine,     \* "UCT" (mcts.py) or "MCTS" (mcts_gt.py)
  rootstate,  \* the argument rootstate / root_state
  itermax,    \* the argument itermax / iterations
  tree,       \* UCT: the Node objects in creation order, rootnode first;
              \* MCTS: the dict GT.tree
  node,       \* the local variable node
  state,      \* the local variable state, this iteration's working copy
  pc,         \* where the call is
  iter,       \* iterations completed
  outcome,    \* the move returned, once the call has returned
  path,       \* the nodes this iteration went through, root first
  passed,     \* per node, the iterations that went through or below it
  method,     \* MCTS: the argument method
  early_end_possible,  \* MCTS: the argument early_end_possible
  root_node,  \* MCTS: the argument / local variable root_node
  result,     \* MCTS: the local variable result
  to_update,  \* MCTS: the queue to_update
  prior,      \* MCTS: the argument starting_tree as it was when passed
  budget      \* iterations the caller may still ask for in later calls

uctVars ==
  <<engine, rootstate, itermax, tree, node, state, pc, iter, outcome, path,
    passed>>

mctsVars ==
  <<method, early_end_possible, root_node, result, to_update, prior, budget>>

searchVars == <<uctVars, mctsVars>>

vars == <<gameVars, searchVars>>

\* Calls made on the two objects once a clone exists.
MaxAfterClone == 1

\* Moves applied that GetMoves() did not offer, over one run.
MaxOverMoves == 1

\* The arguments DoMove is called with: every cell and one index past each end.
MoveArgs == -1..9

\* The value of an object: its attributes with the containers read from h.
OXOVal(o, h) ==
  [playerJustMoved |-> o.playerJustMoved, gameOver |-> o.gameOver,
   board |-> h[o.board]]

TTTVal(o, h) ==
  [game_over |-> o.game_over, whose_move |-> o.whose_move,
   board |-> h[o.board], available_moves |-> h[o.available_moves]]

\* A name that is not bound to an object yet.
Unbound == [bound |-> FALSE]

\* What a caller can observe of an object: board, mover, terminal flag, legal
\* moves and whether a result is defined.
Observe(o, h) ==
  IF klass = "OXOState"
  THEN LET v == OXOVal(o, h) IN
       [board |-> v.board, mover |-> v.playerJustMoved,
        terminal |-> v.gameOver, moves |-> OXOGetMoves(v),
        result |-> OXOGetResult(v, v.playerJustMoved) # None]
  ELSE LET v == TTTVal(o, h) IN
       [board |-> v.board, mover |-> v.whose_move,
        terminal |-> v.game_over, moves |-> TTTGetMoves(v),
        result |-> TTTGetResult(v) # NoResult]

\* The graph engine's own variables at rest.
MCTSIdle ==
  /\ method = "none"
  /\ early_end_possible = FALSE
  /\ root_node = ""
  /\ result = <<>>
  /\ to_update = <<>>
  /\ prior = <<>>
  /\ budget = 0

\* The engines at rest while the game classes are exercised.
SearchIdle ==
  /\ engine = "none"
  /\ rootstate = Unbound
  /\ itermax = 0
  /\ tree = <<>>
  /\ node = None
  /\ state = Unbound
  /\ pc = "idle"
  /\ iter = 0
  /\ outcome = None
  /\ path = <<>>
  /\ passed = <<>>
  /\ MCTSIdle

\* The constructors: __init__ binds fresh containers.  No engine runs.
InitGame ==
  /\ SearchIdle
  /\ klass \in {"OXOState", "TicTacToe"}
  /\ orig = IF klass = "OXOState"
            THEN [playerJustMoved |-> OXOInit.playerJustMoved,
                  gameOver |-> OXOInit.gameOver, board |-> 1]
            ELSE [game_over |-> TTTInit.game_over,
                  whose_move |-> TTTInit.whose_move,
                  board |-> 1, available_moves |-> 2]
  /\ heap = IF klass = "OXOState"
            THEN (1 :> OXOInit.board)
            ELSE (1 :> TTTInit.board) @@ (2 :> TTTInit.available_moves)
  /\ twin = Unbound
  /\ last = [op |-> "init", on |-> "orig", move |-> None, raised |-> FALSE]
  /\ calls = 0
  /\ overMoves = 0

\* The object and heap after OXOState.DoMove(move) on o: the list o.board
\* refers to is written in place.
OXODoMoveAt(o, h, move) ==
  LET v == OXODoMove(OXOVal(o, h), move) IN
  [obj |-> [o EXCEPT !.playerJustMoved = v.playerJustMoved,
                     !.gameOver = v.gameOver],
   heap |-> [h EXCEPT ![o.board] = v.board]]

\* The object and heap after TicTacToe.do_move(move) on o: the list and the
\* set o refers to are written in place.
TTTDoMoveAt(o, h, move) ==
  LET v == TTTDoMove(TTTVal(o, h), move) IN
  [obj |-> [o EXCEPT !.game_over = v.game_over, !.whose_move = v.whose_move],
   heap |-> [a \in DOMAIN h |->
               IF a = o.available_moves THEN v.available_moves
               ELSE IF a = o.board THEN v.board
               ELSE h[a]]]

\* OXOState.Clone of o: the copy's board is a new list (self.board[:]) at a.
OXOCloneAt(o, h, a) ==
  LET v == OXOClone(OXOVal(o, h)) IN
  [obj |-> [playerJustMoved |-> v.playerJustMoved, gameOver |-> v.gameOver,
            board |-> a],
   heap |-> (a :> v.board) @@ h]

\* TicTacToe.clone of o: a new list at a and a new set at a + 1.
TTTCloneAt(o, h, a) ==
  LET v == TTTClone(TTTVal(o, h)) IN
  [obj |-> [game_over |-> v.game_over, whose_move |-> v.whose_move,
            board |-> a, available_moves |-> a + 1],
   heap |-> (a :> v.board) @@ ((a + 1) :> v.available_moves) @@ h]

MoveAccepted(o, h, move) ==
  IF klass = "OXOState"
  THEN OXOMoveAccepted(OXOVal(o, h), move)
  ELSE TTTMoveAccepted(TTTVal(o, h), move)

\* An AssertionError is caught nowhere: the run ends with it.
MayCall ==
  /\ ~last.raised
  /\ twin = Unbound \/ calls < MaxAfterClone

Receiver(on) == IF on = "orig" THEN orig ELSE twin

\* A call of DoMove / do_move whose assertion fails: AssertionError, nothing
\* written.
DoMoveRaises(on, move) ==
  /\ MayCall
  /\ on = "twin" => twin # Unbound
  /\ ~MoveAccepted(Receiver(on), heap, move)
  /\ last' = [op |-> "DoMove", on |-> on, move |-> move, raised |-> TRUE]
  /\ calls' = IF twin = Unbound THEN 0 ELSE calls + 1
  /\ UNCHANGED <<klass, heap, orig, twin, overMoves>>
  /\ UNCHANGED searchVars

\* A call of DoMove / do_move that passes its assertion.
DoMoveApplies(on, move) ==
  /\ MayCall
  /\ on = "twin" => twin # Unbound
  /\ LET o == Receiver(on)
         r == IF klass = "OXOState"
              THEN OXODoMoveAt(o, heap, move)
              ELSE TTTDoMoveAt(o, heap, move)
         over == IF move \in Observe(o, heap).moves THEN 0 ELSE 1
     IN /\ MoveAccepted(o, heap, move)
        /\ overMoves + over <= MaxOverMoves
        /\ overMoves' = overMoves + over
        /\ heap' = r.heap
        /\ orig' = IF on = "orig" THEN r.obj ELSE orig
        /\ twin' = IF on = "twin" THEN r.obj ELSE twin
  /\ last' = [op |-> "DoMove", on |-> on, move |-> move, raised |-> FALSE]
  /\ calls' = IF twin = Unbound THEN 0 ELSE calls + 1
  /\ UNCHANGED klass
  /\ UNCHANGED searchVars

\* twin = orig.Clone() / orig.clone().
CloneCall ==
  /\ ~last.raised
  /\ twin = Unbound
  /\ LET r == IF klass = "OXOState"
              THEN OXOCloneAt(orig, heap, 3)
              ELSE TTTCloneAt(orig, heap, 3)
     IN /\ twin' = r.obj
        /\ heap' = r.heap
  /\ last' = [op |-> "Clone", on |-> "orig", move |-> None, raised |-> FALSE]
  /\ calls' = 0
  /\ UNCHANGED <<klass, orig, overMoves>>
  /\ UNCHANGED searchVars

NextGame ==
  \/ \E on \in {"orig", "twin"}, move \in MoveArgs : DoMoveRaises(on, move)
  \/ \E on \in {"orig", "twin"}, move \in MoveArgs : DoMoveApplies(on, move)
  \/ CloneCall

(***************************************************************************)
(* Bounds and root states of the two search engines.                       *)
(***************************************************************************)
\* The iterations one call of UCT is asked for.
MaxItermax == 5

\* The iterations the calls of MCTS on one graph are asked for, in total.
MaxIterations == 4

\* The empty cells of the root states searched.
MaxEmpty == 3

\* The games the root states are taken from: one that player 1 wins with two
\* cells left, and one played to a full board without a line.
RootLines ==
  { <<0, 1, 2, 4, 3, 5, 6>>, <<0, 1, 2, 4, 3, 5, 7, 6, 8>> }

RECURSIVE OXOPlay(_, _)
OXOPlay(st, moves) ==
  IF moves = <<>> THEN st
  ELSE OXOPlay(OXODoMove(st, Head(moves)), Tail(moves))

RECURSIVE TTTPlay(_, _)
TTTPlay(st, moves) ==
  IF moves = <<>> THEN st
  ELSE TTTPlay(TTTDoMove(st, Head(moves)), Tail(moves))

\* The move sequences that lead to a root state.
RootMoves ==
  UNION {{SubSeq(l, 1, n) : n \in (9 - MaxEmpty)..Len(l)} : l \in RootLines}

\* The move sequences that lead to the root states the graph engine is
\* called on: the last three plies of the two games above and their two
\* final positions, and a position with three empty cells in which player 1
\* has no winning move and must block at 5.
RootMovesGT ==
  UNION {{SubSeq(l, 1, n) : n \in 6..Len(l)} : l \in RootLines}
    \cup {<<0, 1, 2, 4, 7, 3>>}

\* The game classes at rest while an engine runs.
GameIdle ==
  /\ klass = "none"
  /\ heap = <<>>
  /\ orig = Unbound
  /\ twin = Unbound
  /\ last = [op |-> "init", on |-> "orig", move |-> None, raised |-> FALSE]
  /\ calls = 0
  /\ overMoves = 0

(***************************************************************************)
(* The tree engine: Node and UCT (mcts.py).  A Node is a record; a node is *)
(* referred to by its index in tree, rootnode by 1, and parentNode of the  *)
(* root is None.                                                           *)
(***************************************************************************)
rootnode == 1

\* A Node whose constructor counts the creation as a visit.
NewNodeVisited(move, parent, st) ==
  [move |-> move, parentNode |-> parent, childNodes |-> <<>>,
   wins |-> 0, visits |-> 1, expectedOutcome |-> 1,
   untriedMoves |-> OXOGetMoves(st), playerJustMoved |-> st.playerJustMoved]

\* Node.__init__(move, parent, state).
NewNode(move, parent, st) ==
  [move |-> move, parentNode |-> parent, childNodes |-> <<>>,
   wins |-> 0, visits |-> 0, expectedOutcome |-> 1,
   untriedMoves |-> OXOGetMoves(st), playerJustMoved |-> st.playerJustMoved]

\* Node.AddChild without self.untriedMoves.remove(m).
AddChildKeepsMove(t, n, m, s) ==
  LET c == Len(t) + 1 IN
  Append([t EXCEPT ![n].childNodes = Append(@, c)], NewNode(m, n, s))

\* Node.AddChild(m, s) on node n: the tree with the new node appended,
\* m removed from n's untriedMoves and the new node last in n's childNodes.
AddChild(t, n, m, s) ==
  LET c == Len(t) + 1 IN
  Append([t EXCEPT ![n].untriedMoves = @ \ {m},
                   ![n].childNodes = Append(@, c)],
         NewNode(m, n, s))

\* min(self.childNodes, key=expectedOutcome).expectedOutcome
MinChildOutcome(t, n) ==
  LET es == {t[t[n].childNodes[k]].expectedOutcome :
               k \in 1..Len(t[n].childNodes)}
  IN CHOOSE e \in es : \A f \in es : e <= f

\* Node.Update taking max for min over the children.
UpdateMaxChild(t, n, res) ==
  [t EXCEPT ![n].visits = @ + 1,
            ![n].wins = @ + res,
            ![n].expectedOutcome =
               IF t[n].childNodes # <<>>
               THEN 2 - (CHOOSE e \in {t[t[n].childNodes[k]].expectedOutcome :
                                         k \in 1..Len(t[n].childNodes)} :
                           \A k \in 1..Len(t[n].childNodes) :
                             t[t[n].childNodes[k]].expectedOutcome <= e)
               ELSE res]

\* Node.Update that leaves the root out, as a Backpropagate loop running
\* "while node.parentNode is not None" would.
UpdateBelowRoot(t, n, res) ==
  IF t[n].parentNode = None THEN t
  ELSE [t EXCEPT ![n].visits = @ + 1, ![n].wins = @ + res]

\* Node.Update(result) on node n (scores doubled: 1 - x is 2 - x).
Update(t, n, res) ==
  [t EXCEPT ![n].visits = @ + 1,
            ![n].wins = @ + res,
            ![n].expectedOutcome =
               IF t[n].childNodes # <<>>
               THEN 2 - MinChildOutcome(t, n)
               ELSE res]

\* The children Node.UCTSelectChild can return.  The key
\* c.wins/c.visits + UCTK * sqrt(2*log(self.visits)/c.visits) is a real
\* number that depends on UCTK, any float the caller passes: every child is
\* the maximiser the sort puts last for some run, so every child is allowed.
UCTSelectChild(t, n) ==
  {t[n].childNodes[k] : k \in 1..Len(t[n].childNodes)}

\* The key of UCTSelectChild and of UCT's last line divides by c.visits and
\* takes log(self.visits): ZeroDivisionError / ValueError when one is 0.
KeysDefined(t, n) ==
  /\ t[n].visits >= 1
  /\ \A k \in 1..Len(t[n].childNodes) : t[t[n].childNodes[k]].visits >= 1

\* a.wins/a.visits <= b.wins/b.visits, for visits >= 1.
RatioLeq(t, a, b) == t[a].wins * t[b].visits <= t[b].wins * t[a].visits

\* sorted(childNodes, key=lambda c: c.wins/c.visits): a stable sort, each
\* node placed behind the nodes already there whose key is not larger.
RECURSIVE SortedByRatio(_, _)
SortedByRatio(t, cs) ==
  IF cs = <<>> THEN <<>>
  ELSE LET front == SortedByRatio(t, SubSeq(cs, 1, Len(cs) - 1))
           x == cs[Len(cs)]
           k == Cardinality({j \in 1..Len(front) : RatioLeq(t, front[j], x)})
       IN SubSeq(front, 1, k) \o <<x>> \o SubSeq(front, k + 1, Len(front))

\* The first of the sorted children instead of the last: [0] for [-1].
WorstMove(t) ==
  LET srt == SortedByRatio(t, t[rootnode].childNodes) IN t[srt[1]].move

\* sorted(rootnode.childNodes, key=lambda c: c.wins/c.visits)[-1].move
BestMove(t) ==
  LET srt == SortedByRatio(t, t[rootnode].childNodes) IN t[srt[Len(srt)]].move

\* UCT is called: the arguments are bound, nothing has run.
InitUCT ==
  /\ GameIdle
  /\ engine = "UCT"
  /\ rootstate \in {OXOPlay(OXOInit, ms) : ms \in RootMoves}
  /\ itermax \in 1..MaxItermax
  /\ tree = <<>>
  /\ node = None
  /\ state = Unbound
  /\ pc = "root"
  /\ iter = 0
  /\ outcome = None
  /\ path = <<>>
  /\ passed = <<>>
  /\ MCTSIdle

\* The for loop one pass short: range(itermax - 1) for range(itermax).
UCTLoopHeadShort(done) ==
  IF done + 1 < itermax
  THEN /\ pc' = "select"
       /\ node' = rootnode
       /\ state' = OXOClone(rootstate)
       /\ path' = <<rootnode>>
  ELSE /\ pc' = "return"
       /\ node' = None
       /\ UNCHANGED <<state, path>>

\* The head of the for loop: node = rootnode; state = rootstate.Clone(), or
\* the code behind the loop when itermax iterations are done.
UCTLoopHead(done) ==
  IF done < itermax
  THEN /\ pc' = "select"
       /\ node' = rootnode
       /\ state' = OXOClone(rootstate)
       /\ path' = <<rootnode>>
  ELSE /\ pc' = "return"
       /\ node' = None
       /\ UNCHANGED <<state, path>>

\* rootnode = Node(state=rootstate), and the first loop head.
UCTRoot ==
  /\ engine = "UCT" /\ pc = "root"
  /\ tree' = <<NewNode(None, None, rootstate)>>
  /\ passed' = <<0>>
  /\ UCTLoopHead(0)
  /\ UNCHANGED <<engine, rootstate, itermax, iter, outcome, gameVars, mctsVars>>

\* The Select loop's condition without "and node.childNodes != []".
SelectingWithoutChildren == tree[node].untriedMoves = {}

\* while node.untriedMoves == [] and node.childNodes != []
Selecting == tree[node].untriedMoves = {} /\ tree[node].childNodes # <<>>

\* The loop that follows Expand: Simulate while the state has moves.
AfterExpand(st) == IF OXOGetMoves(st) # {} THEN "simulate" ELSE "backprop"

\* One pass of the Select loop: node = node.UCTSelectChild(UCTK);
\* state.DoMove(node.move).
UCTSelect ==
  /\ engine = "UCT" /\ pc = "select" /\ Selecting
  /\ IF ~KeysDefined(tree, node)
     THEN /\ pc' = "raised"
          /\ UNCHANGED <<node, state, path>>
     ELSE \E c \in UCTSelectChild(tree, node) :
            /\ node' = c
            /\ path' = Append(path, c)
            /\ IF OXOMoveAccepted(state, tree[c].move)
               THEN /\ state' = OXODoMove(state, tree[c].move)
                    /\ pc' = "select"
               ELSE /\ pc' = "raised"
                    /\ UNCHANGED state
  /\ UNCHANGED <<engine, rootstate, itermax, tree, iter, outcome, passed,
                 gameVars,
                 mctsVars>>

\* The path of the iteration is complete: count it at each of its nodes.
CountPath(p, n) ==
  [k \in 1..n |->
     (IF k \in DOMAIN passed THEN passed[k] ELSE 0)
       + (IF \E j \in 1..Len(p) : p[j] = k THEN 1 ELSE 0)]

\* Expand: m = random.choice(node.untriedMoves); state.DoMove(m);
\* node = node.AddChild(m, state).
UCTExpand ==
  /\ engine = "UCT" /\ pc = "select" /\ ~Selecting
  /\ tree[node].untriedMoves # {}
  /\ \E m \in tree[node].untriedMoves :
       IF OXOMoveAccepted(state, m)
       THEN LET s == OXODoMove(state, m)
                t == AddChild(tree, node, m, s)
            IN /\ state' = s
               /\ tree' = t
               /\ node' = Len(t)
               /\ path' = Append(path, Len(t))
               /\ passed' = CountPath(Append(path, Len(t)), Len(t))
               /\ pc' = AfterExpand(s)
       ELSE /\ pc' = "raised"
            /\ UNCHANGED <<state, tree, node, path, passed>>
  /\ UNCHANGED <<engine, rootstate, itermax, iter, outcome, gameVars, mctsVars>>

\* Nothing to expand: node.untriedMoves == [] and node.childNodes == [].
UCTNoExpand ==
  /\ engine = "UCT" /\ pc = "select" /\ ~Selecting
  /\ tree[node].untriedMoves = {}
  /\ passed' = CountPath(path, Len(tree))
  /\ pc' = AfterExpand(state)
  /\ UNCHANGED <<engine, rootstate, itermax, tree, node, state, iter, outcome,
                 path, gameVars, mctsVars>>

\* One pass of the Simulate loop:
\* state.DoMove(random.choice(state.GetMoves())).
UCTSimulate ==
  /\ engine = "UCT" /\ pc = "simulate"
  /\ \E m \in OXOGetMoves(state) :
       IF OXOMoveAccepted(state, m)
       THEN /\ state' = OXODoMove(state, m)
            /\ pc' = AfterExpand(OXODoMove(state, m))
       ELSE /\ pc' = "raised"
            /\ UNCHANGED state
  /\ UNCHANGED <<engine, rootstate, itermax, tree, node, iter, outcome, path,
                 passed, gameVars, mctsVars>>

\* One pass of the Backpropagate loop:
\* node.Update(state.GetResult(node.playerJustMoved)); node = node.parentNode,
\* and the next loop head when node is None.
UCTBackpropagate ==
  /\ engine = "UCT" /\ pc = "backprop"
  /\ tree' = Update(tree, node,
                    OXOGetResult(state, tree[node].playerJustMoved))
  /\ IF tree[node].parentNode # None
     THEN /\ node' = tree[node].parentNode
          /\ UNCHANGED <<pc, state, path, iter>>
     ELSE /\ iter' = iter + 1
          /\ UCTLoopHead(iter + 1)
  /\ UNCHANGED <<engine, rootstate, itermax, outcome, passed, gameVars, mctsVars>>

\* return sorted(rootnode.childNodes, key=...)[-1].move: IndexError on an
\* empty list, ZeroDivisionError on a child never visited.
UCTReturn ==
  /\ engine = "UCT" /\ pc = "return"
  /\ IF tree[rootnode].childNodes = <<>> \/ ~KeysDefined(tree, rootnode)
     THEN /\ pc' = "raised"
          /\ UNCHANGED outcome
     ELSE /\ pc' = "returned"
          /\ outcome' = BestMove(tree)
  /\ UNCHANGED <<engine, rootstate, itermax, tree, node, state, iter, path,
                 passed, gameVars, mctsVars>>

NextUCT ==
  \/ UCTRoot
  \/ UCTSelect
  \/ UCTExpand
  \/ UCTNoExpand
  \/ UCTSimulate
  \/ UCTBackpropagate
  \/ UCTReturn

SpecUCT == InitUCT /\ [][NextUCT]_vars

(***************************************************************************)
(* The graph engine: GameTree and MCTS (mcts_gt.py).  GT.tree is a dict    *)
(* from a state's name to its record; a record's field pos is its place in *)
(* the dict's insertion order, which is the order tree.items() yields.     *)
(***************************************************************************)
EmptyDict == [x \in {} |-> 0]

\* d[k] = v on a dict.
DictSet(d, k, v) ==
  [x \in DOMAIN d \cup {k} |-> IF x = k THEN v ELSE d[x]]

\* The record with checked_for_terminal_moves = early_end_possible, the
\* "not" left out.
NewRecordFlagNotNegated(t, st, parent, early) ==
  [whose_move |-> st.whose_move,
   parents |-> IF parent # "" THEN {parent} ELSE {},
   checked_for_terminal_moves |-> early,
   tried_moves |-> EmptyDict,
   untried_moves |-> TTTGetMoves(st),
   wins |-> 0, visits |-> 0, EVs |-> NoResult,
   pos |-> Cardinality(DOMAIN t) + 1]

\* The record with untried_moves = copy(state.available_moves), the empty
\* cells, for copy(state.get_moves()).
NewRecordAvailableMoves(t, st, parent, early) ==
  [whose_move |-> st.whose_move,
   parents |-> IF parent # "" THEN {parent} ELSE {},
   checked_for_terminal_moves |-> ~early,
   tried_moves |-> EmptyDict,
   untried_moves |-> st.available_moves,
   wins |-> 0, visits |-> 0, EVs |-> NoResult,
   pos |-> Cardinality(DOMAIN t) + 1]

\* The record create_node stores for a state it has not seen.
NewRecord(t, st, parent, early) ==
  [whose_move |-> st.whose_move,
   parents |-> IF parent # "" THEN {parent} ELSE {},
   checked_for_terminal_moves |-> ~early,
   tried_moves |-> EmptyDict,
   untried_moves |-> TTTGetMoves(st),
   wins |-> 0, visits |-> 0, EVs |-> NoResult,
   pos |-> Cardinality(DOMAIN t) + 1]

\* The assertion of GameTree.create_node on a state already in the tree.
CreateNodeAccepted(t, st) ==
  ToName(st) \in DOMAIN t => t[ToName(st)].whose_move = st.whose_move

\* GameTree.create_node with the existing record thrown away: the else
\* branch taken whether or not the node is in the tree.
CreateNodeAnew(t, st, parent, early) ==
  DictSet(t, ToName(st), NewRecord(t, st, parent, early))

\* GameTree.create_node(state, parent) past its assertion: the tree after it
\* (the node it returns is ToName(state)).  No parent is the empty name: the
\* code tests "if parent", and no state has an empty name.
CreateNode(t, st, parent, early) ==
  LET name == ToName(st) IN
  IF name \in DOMAIN t
  THEN (IF parent # ""
        THEN [t EXCEPT ![name].parents = @ \cup {parent}]
        ELSE t)
  ELSE DictSet(t, name, NewRecord(t, st, parent, early))

\* GameTree.add_child(parent, move, state): the tree after it.
AddChildGT(t, parent, move, st, early) ==
  LET t1 == CreateNode(t, st, parent, early) IN
  [t1 EXCEPT ![parent].untried_moves = @ \ {move},
             ![parent].tried_moves = DictSet(@, move, ToName(st))]

\* The moves a deepcopy of the state takes in check_for_terminal_move all
\* pass do_move's assertion.
TerminalCheckAccepted(t, name, st) ==
  /\ name = ToName(st)
  /\ \A m \in t[name].untried_moves : TTTMoveAccepted(st, m)

\* check_for_terminal_move that sets the flag and leaves untried_moves as
\* they are.
CheckForTerminalMoveKeepsAll(t, name, st) ==
  [t EXCEPT ![name].checked_for_terminal_moves = TRUE]

\* check_for_terminal_move with its test negated: "if not
\* state_copy.game_over" collects the moves that do not end the game.
CheckForTerminalMoveNegated(t, name, st) ==
  LET terminal_moves ==
        {m \in t[name].untried_moves : ~TTTDoMove(TTTClone(st), m).game_over}
  IN [t EXCEPT ![name].checked_for_terminal_moves = TRUE,
               ![name].untried_moves =
                  IF terminal_moves # {} THEN terminal_moves ELSE @]

\* GameTree.check_for_terminal_move(node, state) past its assertions.
CheckForTerminalMove(t, name, st) ==
  LET terminal_moves ==
        {m \in t[name].untried_moves : TTTDoMove(TTTClone(st), m).game_over}
  IN [t EXCEPT ![name].checked_for_terminal_moves = TRUE,
               ![name].untried_moves =
                  IF terminal_moves # {} THEN terminal_moves ELSE @]

\* "if not checked_for_terminal_moves: check_for_terminal_move(node, state)"
CheckIfUnchecked(t, name, st) ==
  IF t[name].checked_for_terminal_moves THEN t
  ELSE CheckForTerminalMove(t, name, st)

\* The moves GameTree.get_random_move(node) can return (none: it returns
\* None).
GetRandomMove(t, name) ==
  IF t[name].untried_moves # {} THEN t[name].untried_moves
  ELSE DOMAIN t[name].tried_moves

\* The names of the children of a record: tried_moves.values().
Children(t, name) ==
  {t[name].tried_moves[m] : m \in DOMAIN t[name].tried_moves}

\* The list [... for name, node in self.tree.items() if name in
\* tried_moves.values()]: the children in dict order.
RECURSIVE InDictOrder(_, _)
InDictOrder(t, names) ==
  IF names = {} THEN <<>>
  ELSE LET first == CHOOSE n \in names : \A o \in names : t[n].pos <= t[o].pos
       IN <<first>> \o InDictOrder(t, names \ {first})

\* {child: move for move, child in tried_moves.items()}[child]
MoveTo(t, name, child) ==
  CHOOSE m \in DOMAIN t[name].tried_moves : t[name].tried_moves[m] = child

\* The keys of select_child and of MCTS's final sort are defined: no
\* division by zero visits, no log(0), no missing EVs entry.
KeysDefinedGT(t, name, how, mover) ==
  /\ t[name].visits >= 1
  /\ \A c \in Children(t, name) :
       /\ t[c].visits >= 1
       /\ how = "EV_UCB1" => mover \in DOMAIN t[c].EVs

\* The children GameTree.select_child can return: the last of the children
\* sorted by a real-valued key that depends on the float K.  As for
\* UCTSelectChild, any child may be the one.
SelectChild(t, name) == Children(t, name)

\* update_node crediting the player who is to move after the parent's
\* mover, not the parent's mover.
PerspectivesToMove(t, name) ==
  IF t[name].parents # {}
  THEN {3 - t[p].whose_move : p \in t[name].parents}
  ELSE {t[name].whose_move}

\* The perspectives update_node can credit: whose_move of a parent drawn by
\* random.sample, or the node's own for a node without parents.
Perspectives(t, name) ==
  IF t[name].parents # {}
  THEN {t[p].whose_move : p \in t[name].parents}
  ELSE {t[name].whose_move}

\* update_node reads result[whose_move] and, for a node with tried moves,
\* e[node["whose_move"]] of every child's EVs: KeyError when one is missing.
UpdateDefined(t, name, res, whose_move) ==
  /\ whose_move \in DOMAIN res
  /\ \A c \in Children(t, name) : t[name].whose_move \in DOMAIN t[c].EVs

\* The EVs of the child that comes last in dict order, whatever its value.
NewestChildEVs(t, name) ==
  LET cs == InDictOrder(t, Children(t, name)) IN t[cs[Len(cs)]].EVs

\* max(children_EVs, key=lambda e: e[node["whose_move"]]): the first of the
\* largest in dict order.
MaxChildEVs(t, name) ==
  LET cs == InDictOrder(t, Children(t, name))
      w == t[name].whose_move
      k == CHOOSE i \in 1..Len(cs) :
             /\ \A j \in 1..Len(cs) : t[cs[j]].EVs[w] <= t[cs[i]].EVs[w]
             /\ \A j \in 1..(i - 1) : t[cs[j]].EVs[w] < t[cs[i]].EVs[w]
  IN t[cs[k]].EVs

\* update_node crediting the result twice.
UpdateNodeWinsTwice(t, name, res, whose_move) ==
  [t EXCEPT ![name].visits = @ + 1,
            ![name].wins = @ + 2 * res[whose_move],
            ![name].EVs = IF DOMAIN t[name].tried_moves # {}
                          THEN MaxChildEVs(t, name)
                          ELSE res]

\* GameTree.update_node(node, result) with the perspective drawn.
UpdateNode(t, name, res, whose_move) ==
  [t EXCEPT ![name].visits = @ + 1,
            ![name].wins = @ + res[whose_move],
            ![name].EVs = IF DOMAIN t[name].tried_moves # {}
                          THEN MaxChildEVs(t, name)
                          ELSE res]

\* (a.EVs[w], a.wins/a.visits) <= (b.EVs[w], b.wins/b.visits) as tuples.
PairLeq(t, w, a, b) ==
  \/ t[a].EVs[w] < t[b].EVs[w]
  \/ /\ t[a].EVs[w] = t[b].EVs[w]
     /\ t[a].wins * t[b].visits <= t[b].wins * t[a].visits

\* sorted(children, key=lambda c: (EVs[whose_move], wins/visits)), stable.
RECURSIVE SortedByPair(_, _, _)
SortedByPair(t, w, cs) ==
  IF cs = <<>> THEN <<>>
  ELSE LET front == SortedByPair(t, w, SubSeq(cs, 1, Len(cs) - 1))
           x == cs[Len(cs)]
           k == Cardinality({j \in 1..Len(front) : PairLeq(t, w, front[j], x)})
       IN SubSeq(front, 1, k) \o <<x>> \o SubSeq(front, k + 1, Len(front))

\* The move of the first child in the sorted list: [0] for [-1].
WorstMoveGT(t, root, w) ==
  LET srt == SortedByPair(t, w, InDictOrder(t, Children(t, root)))
  IN MoveTo(t, root, srt[1])

\* The move MCTS returns: that of the last child in the sorted list.
BestMoveGT(t, root, w) ==
  LET srt == SortedByPair(t, w, InDictOrder(t, Children(t, root)))
  IN MoveTo(t, root, srt[Len(srt)])

\* The nodes the breadth-first walk over parents reaches from a set of nodes.
RECURSIVE Ancestors(_, _)
Ancestors(t, names) ==
  LET more == names \cup UNION {t[n].parents : n \in names}
  IN IF more = names THEN names ELSE Ancestors(t, more)

\* MCTS is called on a fresh graph: the arguments are bound, nothing has run.
InitMCTS ==
  /\ GameIdle
  /\ engine = "MCTS"
  /\ rootstate \in {TTTPlay(TTTInit, ms) : ms \in RootMovesGT}
  /\ itermax \in 1..MaxIterations
  /\ budget = MaxIterations - itermax
  /\ method \in {"UCB1", "EV_UCB1"}
  /\ early_end_possible \in BOOLEAN
  /\ tree = EmptyDict
  /\ prior = EmptyDict
  /\ root_node = ""
  /\ node = ""
  /\ state = Unbound
  /\ pc = "root"
  /\ iter = 0
  /\ outcome = None
  /\ path = <<>>
  /\ passed = EmptyDict
  /\ result = NoResult
  /\ to_update = <<>>

\* The head of the for loop: node = root_node; state = deepcopy(root_state),
\* or the code behind the loop when the iterations are done.
MCTSLoopHead(done, asked, root, rs) ==
  IF done < asked
  THEN /\ pc' = "select"
       /\ node' = root
       /\ state' = TTTClone(rs)
       /\ path' = <<root>>
  ELSE /\ pc' = "return"
       /\ node' = root
       /\ UNCHANGED <<state, path>>

\* The else branch of "if starting_tree": GT = GameTree(...);
\* root_node = GT.create_node(state=root_state), and the first loop head.
MCTSRoot ==
  /\ engine = "MCTS" /\ pc = "root"
  /\ tree' = CreateNode(EmptyDict, rootstate, "", early_end_possible)
  /\ root_node' = ToName(rootstate)
  /\ passed' = (ToName(rootstate) :> 0)
  /\ MCTSLoopHead(0, itermax, ToName(rootstate), rootstate)
  /\ UNCHANGED <<engine, rootstate, itermax, iter, outcome, method,
                 early_end_possible, result, to_update, prior, budget,
                 gameVars>>

\* while tried_moves != {} and not untried_moves
SelectingGT ==
  DOMAIN tree[node].tried_moves # {} /\ tree[node].untried_moves = {}

\* The iteration counted at every node the walk over parents reaches from
\* its deepest node.
CountWalk(t, name) ==
  LET reached == Ancestors(t, {name}) IN
  [k \in DOMAIN t |->
     (IF k \in DOMAIN passed THEN passed[k] ELSE 0)
       + (IF k \in reached THEN 1 ELSE 0)]

\* What follows Expand: one more pass of Simulate, or, the game being over,
\* result = state.get_result(); to_update = Queue(); to_update.put(node).
Leave(t, name, st) ==
  IF ~st.game_over
  THEN /\ pc' = "simulate"
       /\ passed' = [k \in DOMAIN t |->
                       IF k \in DOMAIN passed THEN passed[k] ELSE 0]
       /\ UNCHANGED <<result, to_update>>
  ELSE /\ pc' = "backprop"
       /\ result' = TTTGetResult(st)
       /\ to_update' = <<name>>
       /\ passed' = CountWalk(t, name)

Raise == pc' = "raised"

\* One pass of the Select loop:
\* node, move = GT.select_child(node, method, K); state.do_move(move).
MCTSSelect ==
  /\ engine = "MCTS" /\ pc = "select" /\ SelectingGT
  /\ IF ~KeysDefinedGT(tree, node, method, tree[node].whose_move)
     THEN Raise /\ UNCHANGED <<node, state, path>>
     ELSE \E c \in SelectChild(tree, node) :
            /\ node' = c
            /\ path' = Append(path, c)
            /\ IF TTTMoveAccepted(state, MoveTo(tree, node, c))
               THEN /\ state' = TTTDoMove(state, MoveTo(tree, node, c))
                    /\ pc' = "select"
               ELSE Raise /\ UNCHANGED state
  /\ UNCHANGED <<engine, rootstate, itermax, tree, iter, outcome, passed,
                 mctsVars, gameVars>>

\* Expand: check_for_terminal_move on a node not checked yet,
\* move = random.sample(untried_moves, 1)[0]; state.do_move(move);
\* node = GT.add_child(node, move, state), and check_for_terminal_move on the
\* child when it is not checked yet.
MCTSExpand ==
  /\ engine = "MCTS" /\ pc = "select" /\ ~SelectingGT
  /\ tree[node].untried_moves # {}
  /\ IF ~(tree[node].checked_for_terminal_moves
           \/ TerminalCheckAccepted(tree, node, state))
     THEN Raise /\ UNCHANGED <<tree, node, state, path, passed, result,
                               to_update>>
     ELSE LET t1 == CheckIfUnchecked(tree, node, state) IN
          \E move \in t1[node].untried_moves :
            IF ~TTTMoveAccepted(state, move)
            THEN /\ Raise
                 /\ tree' = t1
                 /\ UNCHANGED <<node, state, path, passed, result, to_update>>
            ELSE LET s == TTTDoMove(state, move)
                     child == ToName(s)
                     t2 == AddChildGT(t1, node, move, s, early_end_possible)
                 IN    IF ~CreateNodeAccepted(t1, s)
                       THEN /\ Raise
                            /\ state' = s
                            /\ tree' = t1
                            /\ UNCHANGED <<node, path, passed, result,
                                           to_update>>
                       ELSE /\ state' = s
                            /\ node' = child
                            /\ path' = Append(path, child)
                            /\ IF ~(t2[child].checked_for_terminal_moves
                                     \/ TerminalCheckAccepted(t2, child, s))
                               THEN /\ Raise
                                    /\ tree' = t2
                                    /\ UNCHANGED <<passed, result, to_update>>
                               ELSE /\ tree' = CheckIfUnchecked(t2, child, s)
                                    /\ Leave(tree', child, s)
  /\ UNCHANGED <<engine, rootstate, itermax, iter, outcome, method,
                 early_end_possible, root_node, prior, budget, gameVars>>

\* Nothing to expand: the node has no untried and no tried move.
MCTSNoExpand ==
  /\ engine = "MCTS" /\ pc = "select" /\ ~SelectingGT
  /\ tree[node].untried_moves = {}
  /\ Leave(tree, node, state)
  /\ UNCHANGED <<engine, rootstate, itermax, tree, node, state, iter, outcome,
                 path, method, early_end_possible, root_node, prior, budget,
                 gameVars>>

\* One pass of the Simulate loop: move = GT.get_random_move(node);
\* state.do_move(move); node = GT.add_child(node, move, state).  A move of
\* None fails in do_move.
MCTSSimulate ==
  /\ engine = "MCTS" /\ pc = "simulate"
  /\ IF GetRandomMove(tree, node) = {}
     THEN Raise /\ UNCHANGED <<tree, node, state, path, passed, result,
                               to_update>>
     ELSE \E move \in GetRandomMove(tree, node) :
            IF ~TTTMoveAccepted(state, move)
            THEN Raise /\ UNCHANGED <<tree, node, state, path, passed, result,
                                      to_update>>
            ELSE LET s == TTTDoMove(state, move)
                     t1 == AddChildGT(tree, node, move, s, early_end_possible)
                 IN /\ state' = s
                    /\ IF ~CreateNodeAccepted(tree, s)
                       THEN Raise /\ UNCHANGED <<tree, node, path, passed,
                                                 result, to_update>>
                       ELSE /\ tree' = t1
                            /\ node' = ToName(s)
                            /\ path' = Append(path, ToName(s))
                            /\ Leave(tree', node', s)
  /\ UNCHANGED <<engine, rootstate, itermax, iter, outcome, method,
                 early_end_possible, root_node, prior, budget, gameVars>>

\* The orders "for parent in parents" can put the elements of a set in.
RECURSIVE Orders(_)
Orders(names) ==
  IF names = {} THEN {<<>>}
  ELSE UNION {{<<n>> \o rest : rest \in Orders(names \ {n})} : n \in names}

\* One pass of the Backpropagate loop: node = to_update.get();
\* GT.update_node(node, result); every parent put on the queue; and the next
\* loop head when the queue is empty.  A KeyError in update_node leaves the
\* assignments made before it.
MCTSBackpropagate ==
  /\ engine = "MCTS" /\ pc = "backprop" /\ to_update # <<>>
  /\ LET n == Head(to_update) IN
     \E whose_move \in Perspectives(tree, n) :
       IF ~UpdateDefined(tree, n, result, whose_move)
       THEN /\ Raise
            /\ tree' = [tree EXCEPT
                          ![n].visits = @ + 1,
                          ![n].wins = IF whose_move \in DOMAIN result
                                      THEN @ + result[whose_move] ELSE @]
            /\ node' = n
            /\ to_update' = Tail(to_update)
            /\ UNCHANGED <<iter, state, path>>
       ELSE /\ tree' = UpdateNode(tree, n, result, whose_move)
            /\ \E more \in Orders(tree[n].parents) :
                 /\ to_update' = Tail(to_update) \o more
                 /\ IF Tail(to_update) \o more # <<>>
                    THEN /\ node' = n
                         /\ UNCHANGED <<pc, iter, state, path>>
                    ELSE /\ iter' = iter + 1
                         /\ MCTSLoopHead(iter + 1, itermax, root_node, rootstate)
  /\ UNCHANGED <<engine, rootstate, itermax, outcome, passed, method,
                 early_end_possible, root_node, result, prior, budget,
                 gameVars>>

\* The code behind the loop: the children of the root sorted by
\* (EVs[root_state.whose_move], wins/visits), the last one's move returned.
\* IndexError on a root without children.
MCTSReturn ==
  /\ engine = "MCTS" /\ pc = "return"
  /\ IF \/ Children(tree, root_node) = {}
        \/ ~KeysDefinedGT(tree, root_node, "EV_UCB1", rootstate.whose_move)
     THEN Raise /\ UNCHANGED outcome
     ELSE /\ pc' = "returned"
          /\ outcome' = BestMoveGT(tree, root_node, rootstate.whose_move)
  /\ UNCHANGED <<engine, rootstate, itermax, tree, node, state, iter, path,
                 passed, mctsVars, gameVars>>

\* GameTree.__init__ that starts from an empty dict whatever it is given.
GameTreeInitEmpty(starting_tree) == EmptyDict

\* GameTree.__init__ with a starting_tree: self.tree = starting_tree.
GameTreeInit(starting_tree) == starting_tree

\* The root states a caller resumes on: the one just searched, or the one
\* the returned move leads to.
ResumeStates == {rootstate, TTTDoMove(rootstate, outcome)}

\* MCTS is called again with starting_tree = the graph of the call that
\* returned, root_node = the name of the new root state, and the method and
\* early_end_possible of the first call.
MCTSResume ==
  /\ engine = "MCTS" /\ pc = "returned" /\ budget >= 1
  /\ \E rs \in ResumeStates, n \in 1..budget :
       /\ ToName(rs) \in DOMAIN tree
       /\ rootstate' = rs
       /\ root_node' = ToName(rs)
       /\ itermax' = n
       /\ budget' = budget - n
       /\ prior' = tree
       /\ tree' = GameTreeInit(tree)
       /\ iter' = 0
       /\ outcome' = None
       /\ MCTSLoopHead(0, n, ToName(rs), rs)
  /\ UNCHANGED <<engine, passed, method, early_end_possible, result, to_update,
                 gameVars>>

\* A step of a call of MCTS that is running.
MCTSStep ==
  \/ MCTSRoot
  \/ MCTSSelect
  \/ MCTSExpand
  \/ MCTSNoExpand
  \/ MCTSSimulate
  \/ MCTSBackpropagate
  \/ MCTSReturn

NextMCTS ==
  \/ MCTSStep
  \/ MCTSResume

SpecMCTS == InitMCTS /\ [][NextMCTS]_vars

\* Either engine, called once.
SpecSearch == (InitUCT \/ InitMCTS) /\ [][NextUCT \/ NextMCTS]_vars

\* The call is at one of its statements: it has neither returned nor raised.
Running == pc \in {"root", "select", "simulate", "backprop", "return"}

\* Either engine, and a call that is running takes its next step: both are
\* sequential code that nothing suspends.  This is weak fairness of the
\* steps of a call, written out: the statement reached decides which step
\* is next, so a step is enabled exactly while Running holds, and the only
\* steps there are while it holds are steps of the call.  When the caller
\* calls again is left to the caller.
SpecSearchFair ==
  /\ InitUCT \/ InitMCTS
  /\ [][NextUCT \/ NextMCTS]_vars
  /\ []<>(~Running) \/ []<><<TRUE>>_vars

\* The root state has no legal move.
RootTerminal ==
  IF engine = "UCT" THEN OXOGetMoves(rootstate) = {}
  ELSE TTTGetMoves(rootstate) = {}

\* The call was not given a starting_tree.
Fresh == DOMAIN prior = {}

\* Between two iterations, or behind the last one.
UCTBoundary ==
  \/ pc \in {"return", "returned"}
  \/ pc = "select" /\ path = <<rootnode>>

MCTSBoundary ==
  \/ pc \in {"return", "returned"}
  \/ pc = "select" /\ path = <<root_node>>

(***************************************************************************)
(* C1.  A search called on a root state that is already terminal fails at  *)
(* once: no iteration is completed, no move is returned, and no node's     *)
(* visits, wins or expected value is touched.                              *)
(***************************************************************************)
C1_TerminalRootFailsAtOnce ==
  (RootTerminal /\ Fresh) =>
    /\ iter = 0
    /\ pc # "returned"
    /\ \A n \in DOMAIN tree :
         /\ tree[n].visits = 0
         /\ tree[n].wins = 0
         /\ engine = "UCT" => tree[n].expectedOutcome = 1
         /\ engine = "MCTS" => tree[n].EVs = NoResult

(***************************************************************************)
(* C3.  In a search on a fresh graph, between iterations every node's      *)
(* visits is the number of iterations whose deepest node it is an ancestor *)
(* of (or is), each counted once, and the root's visits is the number of   *)
(* iterations completed.                                                   *)
(***************************************************************************)
C3_EachIterationCountedOnce ==
  (engine = "MCTS" /\ Fresh /\ MCTSBoundary) =>
    /\ tree[root_node].visits = iter
    /\ \A n \in DOMAIN tree : tree[n].visits = passed[n]

(***************************************************************************)
(* C4.  In UCT, between iterations every node's visits is the number of    *)
(* iterations whose selected and expanded path went through the node, the  *)
(* root's visits is the number of iterations completed, and no step makes  *)
(* a node's visits smaller.                                                *)
(***************************************************************************)
C4_VisitsCountPaths ==
  /\ [](engine = "UCT" /\ UCTBoundary =>
          /\ tree[rootnode].visits = iter
          /\ \A n \in DOMAIN tree : tree[n].visits = passed[n])
  /\ [][engine = "UCT" =>
          \A n \in DOMAIN tree :
            n \in DOMAIN tree' /\ tree'[n].visits >= tree[n].visits]_vars

\* Three iterations done, one of them selected its way through a child that
\* an earlier one had expanded.
C4_Witness ==
  /\ engine = "UCT"
  /\ pc = "select" /\ path = <<rootnode>>
  /\ iter >= 3
  /\ \E n \in DOMAIN tree :
       /\ n # rootnode
       /\ tree[n].visits >= 2
       /\ tree[n].visits < tree[rootnode].visits

(***************************************************************************)
(* C5.  In the graph engine the parent and child links agree: the parents  *)
(* of a record are exactly the records with a tried move that leads to it, *)
(* and a position reached again keeps its one record (the places of the    *)
(* records in the dict stay 1, 2, ... in the order of their creation).     *)
(***************************************************************************)
C5_ParentsMatchChildren ==
  (engine = "MCTS" /\ pc # "root") =>
    /\ \A n \in DOMAIN tree :
         /\ \A p \in tree[n].parents :
              p \in DOMAIN tree /\ n \in Children(tree, p)
         /\ \A c \in Children(tree, n) :
              c \in DOMAIN tree /\ n \in tree[c].parents
    /\ {tree[n].pos : n \in DOMAIN tree} = 1..Cardinality(DOMAIN tree)

\* A position reached through two different parents.
C5_Witness ==
  /\ engine = "MCTS"
  /\ pc # "root"
  /\ \E n \in DOMAIN tree :
       /\ Cardinality(tree[n].parents) >= 2
       /\ tree[n].parents = {p \in DOMAIN tree : n \in Children(tree, p)}

(***************************************************************************)
(* C9.  When MCTS is resumed on a starting_tree, every record of that tree *)
(* is still there with its parents and tried moves and with visits and     *)
(* wins no smaller, no step of the search makes any record's visits        *)
(* smaller, and after k iterations of the resumed call on a root that is   *)
(* not terminal the root's visits is at least what it was plus k.          *)
(***************************************************************************)
C9_ResumeKeepsStatistics ==
  /\ []((engine = "MCTS" /\ ~Fresh) =>
          /\ \A n \in DOMAIN prior :
               /\ n \in DOMAIN tree
               /\ tree[n].visits >= prior[n].visits
               /\ tree[n].wins >= prior[n].wins
               /\ prior[n].parents \subseteq tree[n].parents
               /\ DOMAIN prior[n].tried_moves \subseteq DOMAIN tree[n].tried_moves
               /\ tree[n].whose_move = prior[n].whose_move
               /\ tree[n].pos = prior[n].pos
          /\ (MCTSBoundary /\ ~RootTerminal) =>
               tree[root_node].visits >= prior[root_node].visits + iter)
  /\ [][engine = "MCTS" =>
          \A n \in DOMAIN tree :
            n \in DOMAIN tree' /\ tree'[n].visits >= tree[n].visits]_vars

\* A resumed call has completed an iteration on a root that is not terminal
\* and that the earlier call had visited.
C9_Witness ==
  /\ engine = "MCTS"
  /\ ~Fresh
  /\ ~RootTerminal
  /\ pc = "return"
  /\ iter >= 1
  /\ prior[root_node].visits >= 1
  /\ tree[root_node].visits >= prior[root_node].visits + iter

C11_ReturnsBestPair ==
  (engine = "MCTS" /\ ~RootTerminal) =>
    /\ pc # "raised"
    /\ pc = "returned" =>
         /\ outcome \in DOMAIN tree[root_node].tried_moves
         /\ outcome \in TTTGetMoves(rootstate)
         /\ \A d \in Children(tree, root_node) :
              PairLeq(tree, rootstate.whose_move, d,
                      tree[root_node].tried_moves[outcome])

\* MCTS returned the move of a child that beats one child on the expected
\* value and another, of equal expected value, on wins/visits.
C11_Witness ==
  /\ engine = "MCTS"
  /\ pc = "returned"
  /\ LET w == rootstate.whose_move
         c == tree[root_node].tried_moves[outcome]
     IN \E d, e \in Children(tree, root_node) :
          /\ tree[d].EVs[w] < tree[c].EVs[w]
          /\ tree[e].EVs[w] = tree[c].EVs[w]
          /\ tree[e].wins * tree[c].visits < tree[c].wins * tree[e].visits

\* A call has been made and has run nothing yet.
CallStarted ==
  \/ pc = "root"
  \/ engine = "MCTS" /\ ~Fresh /\ iter = 0 /\ pc = "select"
       /\ path = <<root_node>>

(***************************************************************************)
(* C12.  Every call of either engine on a root that is not terminal ends   *)
(* by returning a move; no loop is entered with nothing to do (a rollout   *)
(* pass has a move to play, a backpropagation pass a node to update); and  *)
(* when the call returns all the iterations asked for are complete: the    *)
(* count is itermax, the working state of the last one is a finished game  *)
(* and the graph engine's queue is empty.                                  *)
(***************************************************************************)
C12_CallReturns ==
  /\ (CallStarted /\ ~RootTerminal) ~> (pc = "returned")
  /\ [](/\ (engine = "UCT" /\ pc = "simulate") => OXOGetMoves(state) # {}
        /\ (engine = "MCTS" /\ pc = "simulate") => ~state.game_over
        /\ (engine = "MCTS" /\ pc = "backprop") => to_update # <<>>)
  /\ [](pc = "returned" =>
          /\ iter = itermax
          /\ outcome # None
          /\ engine = "UCT" => OXOGetMoves(state) = {}
          /\ engine = "MCTS" => state.game_over /\ to_update = <<>>)

\* A call came back after several iterations, the last reaching its end of
\* game two plies or more below the root.
C12_Witness ==
  /\ pc = "returned"
  /\ iter = itermax
  /\ iter >= 3
  /\ Len(path) >= 3
  /\ outcome # None

\* sum(c.visits for c in the Nodes cs)
RECURSIVE SumVisits(_, _)
SumVisits(t, cs) ==
  IF cs = <<>> THEN 0 ELSE t[Head(cs)].visits + SumVisits(t, Tail(cs))

\* The Node n of UCT's tree stands for a position without legal moves.
TerminalNode(n) == tree[n].untriedMoves = {} /\ tree[n].childNodes = <<>>

(***************************************************************************)
(* C14.  In UCT, between two iterations every node's visits is one more    *)
(* than the sum of its children's visits (read from the end of the first   *)
(* iteration on: before it the root has no visit at all).                  *)
(***************************************************************************)
C14_VisitsOnePlusChildren ==
  (engine = "UCT" /\ UCTBoundary /\ iter >= 1) =>
    \A n \in DOMAIN tree :
      tree[n].visits = 1 + SumVisits(tree, tree[n].childNodes)

\* C14 as the code has it.  In UCT, between two iterations: the root's
\* visits is the number of iterations done and is the sum of its children's
\* visits, without the one; a node below the root that has legal moves has
\* one visit more than its children together, the iteration that created
\* it; a node without legal moves has no child and is visited once by each
\* iteration that ends in it.
C14_VisitsCountIterations ==
  (engine = "UCT" /\ UCTBoundary /\ tree # <<>>) =>
    \A n \in DOMAIN tree :
      LET below == SumVisits(tree, tree[n].childNodes) IN
      /\ n = rootnode => tree[n].visits = iter
      /\ (n = rootnode /\ ~TerminalNode(n)) => tree[n].visits = below
      /\ (n # rootnode /\ ~TerminalNode(n)) => tree[n].visits = 1 + below
      /\ (n # rootnode /\ TerminalNode(n)) => tree[n].visits >= 1

\* Between two iterations, a node below the root with visited children and
\* a node without legal moves that two iterations ended in.
C14_Witness ==
  /\ engine = "UCT" /\ UCTBoundary /\ iter >= 3
  /\ \E n, m \in DOMAIN tree :
       /\ n # rootnode /\ tree[n].childNodes # <<>>
       /\ tree[n].visits >= 2
       /\ TerminalNode(m) /\ tree[m].visits >= 2

(***************************************************************************)
(* C15.  In both engines, at all times every node has 0 <= wins <= visits, *)
(* and every expected value stored for a node, expectedOutcome in UCT and  *)
(* each entry of EVs in MCTS, lies between 0 and 1.  (Scores are kept      *)
(* doubled here: 1 is written 2.)                                          *)
(***************************************************************************)
C15_WinsAndValuesInRange ==
  /\ engine = "UCT" =>
       \A n \in DOMAIN tree :
         /\ 0 <= tree[n].wins /\ tree[n].wins <= 2 * tree[n].visits
         /\ 0 <= tree[n].expectedOutcome /\ tree[n].expectedOutcome <= 2
  /\ engine = "MCTS" =>
       \A n \in DOMAIN tree :
         /\ 0 <= tree[n].wins /\ tree[n].wins <= 2 * tree[n].visits
         /\ \A p \in DOMAIN tree[n].EVs :
              0 <= tree[n].EVs[p] /\ tree[n].EVs[p] <= 2

\* MCTS records at both ends of the range and between them: one that won
\* every one of its visits, one that lost them all, one in between, and
\* expected values 0 and 1.
C15_Witness ==
  /\ engine = "MCTS"
  /\ \E a, b, c \in DOMAIN tree :
       /\ tree[a].visits >= 2 /\ tree[a].wins = 2 * tree[a].visits
       /\ tree[b].visits >= 1 /\ tree[b].wins = 0
       /\ 0 < tree[c].wins /\ tree[c].wins < 2 * tree[c].visits
       /\ \E p, q \in DOMAIN tree[a].EVs :
            tree[a].EVs[p] = 0 /\ tree[a].EVs[q] = 2

\* This step is a pass of UCT's Backpropagate loop.
UCTBackpropStep == engine = "UCT" /\ pc = "backprop"

(***************************************************************************)
(* C16.  In UCT, a pass of the Backpropagate loop credits its node with    *)
(* the result of the terminal state seen from that node's own              *)
(* playerJustMoved.  Between two iterations every visited node with a      *)
(* child has expectedOutcome = 1 - the least expectedOutcome of its        *)
(* children, and every visited node without children has the result of the *)
(* last playout that ended through it: the pass that updates such a node   *)
(* stores that playout's result, and no other step changes it.  (Scores    *)
(* are kept doubled here: 1 is written 2.)                                 *)
(***************************************************************************)
C16_OutcomeIsOneMinusMinChild ==
  /\ [][UCTBackpropStep =>
          LET res == OXOGetResult(state, tree[node].playerJustMoved) IN
          /\ res \in {0, 1, 2}
          /\ tree'[node].wins = tree[node].wins + res
          /\ tree'[node].visits = tree[node].visits + 1
          /\ tree[node].childNodes = <<>> =>
               tree'[node].expectedOutcome = res
          /\ pc' = "backprop" => state' = state]_vars
  /\ [][engine = "UCT" =>
          \A n \in DOMAIN tree :
            (~(UCTBackpropStep /\ n = node) /\ n \in DOMAIN tree') =>
              /\ tree'[n].expectedOutcome = tree[n].expectedOutcome
              /\ tree'[n].visits = tree[n].visits]_vars
  /\ []((engine = "UCT" /\ UCTBoundary) =>
          \A n \in DOMAIN tree :
            (tree[n].visits >= 1 /\ tree[n].childNodes # <<>>) =>
              tree[n].expectedOutcome = 2 - MinChildOutcome(tree, n))

\* Between two iterations, a node whose children differ in expectedOutcome
\* and a node without children that lost its last playout, or drew it.
C16_Witness ==
  /\ engine = "UCT" /\ UCTBoundary /\ iter >= 2
  /\ \E n, c, d, l \in DOMAIN tree :
       /\ tree[c].parentNode = n /\ tree[d].parentNode = n
       /\ tree[c].expectedOutcome < tree[d].expectedOutcome
       /\ tree[n].expectedOutcome = 2 - tree[c].expectedOutcome
       /\ tree[l].childNodes = <<>> /\ tree[l].visits >= 1
       /\ tree[l].expectedOutcome < 2

\* The position the Node n stands for: rootstate with the moves on the way
\* from the root to n applied, as the Select loop applies them to its clone.
RECURSIVE PositionOf(_, _)
PositionOf(t, n) ==
  IF t[n].parentNode = None THEN rootstate
  ELSE OXODoMove(PositionOf(t, t[n].parentNode), t[n].move)

\* The moves of n's children.
ChildMoves(t, n) == {t[t[n].childNodes[k]].move : k \in 1..Len(t[n].childNodes)}

(***************************************************************************)
(* C17.  In UCT, an iteration adds at most one node to the tree, and none  *)
(* in its Select and Simulate loops.  For every node, the moves of its     *)
(* children and its untriedMoves are disjoint, no two children have the    *)
(* same move, and together they are the legal moves of the node's          *)
(* position.  untriedMoves of a node only ever loses elements.             *)
(***************************************************************************)
C17_OneNodePerIteration ==
  /\ [](engine = "UCT" =>
          /\ Len(tree) <= 1 + iter
                + (IF pc \in {"simulate", "backprop"} THEN 1 ELSE 0)
          /\ \A n \in DOMAIN tree :
               /\ ChildMoves(tree, n) \cap tree[n].untriedMoves = {}
               /\ Cardinality(ChildMoves(tree, n)) = Len(tree[n].childNodes)
               /\ ChildMoves(tree, n) \cup tree[n].untriedMoves
                    = OXOGetMoves(PositionOf(tree, n)))
  /\ [][engine = "UCT" =>
          /\ Len(tree') <= Len(tree) + 1
          /\ Len(tree') >= Len(tree)
          /\ ((pc = "select" /\ Selecting) \/ pc = "simulate") =>
               tree' = tree
          /\ \A n \in DOMAIN tree :
               tree'[n].untriedMoves \subseteq tree[n].untriedMoves]_vars

\* Two iterations have added a node each: a node has two children and a
\* move still untried.
C17_Witness ==
  /\ engine = "UCT" /\ UCTBoundary
  /\ Len(tree) = 3 /\ iter = 2
  /\ \E n \in DOMAIN tree :
       /\ Len(tree[n].childNodes) >= 2
       /\ tree[n].untriedMoves # {}

\* The states some sequence of legal moves leads to from the states S.
RECURSIVE PlayedFrom(_)
PlayedFrom(S) ==
  LET more == S \cup UNION {{TTTDoMove(s, m) : m \in TTTGetMoves(s)} : s \in S}
  IN IF more = S THEN S ELSE PlayedFrom(more)

\* Every state a record of the graph can stand for.
Positions == PlayedFrom({TTTPlay(TTTInit, ms) : ms \in RootMovesGT})

\* The state the record called name stands for.
StateOfName(name) == CHOOSE s \in Positions : ToName(s) = name

\* state_copy = deepcopy(state); state_copy.do_move(move);
\* state_copy.game_over, for the state of the record called name.
EndsGame(name, move) == TTTDoMove(TTTClone(StateOfName(name)), move).game_over

\* The untried moves of the record that end the game at once.
TerminalMoves(t, name) == {m \in t[name].untried_moves : EndsGame(name, m)}

(***************************************************************************)
(* C18.  In MCTS with early_end_possible, check_for_terminal_move sets the *)
(* flag of the record and replaces its untried moves by those of them that *)
(* end the game at once when there is one, and leaves them as they are     *)
(* otherwise (the Expand step that checks a record then takes the move it  *)
(* expands out of them).  So the untried moves of a checked record are     *)
(* never of both kinds: all of them end the game at once, or none does.    *)
(***************************************************************************)
C18_CheckedNeverMixed ==
  /\ []((engine = "MCTS" /\ early_end_possible) =>
          \A n \in DOMAIN tree :
            tree[n].checked_for_terminal_moves =>
              \/ TerminalMoves(tree, n) = tree[n].untried_moves
              \/ TerminalMoves(tree, n) = {})
  /\ [][(engine = "MCTS" /\ early_end_possible) =>
          \A n \in DOMAIN tree' :
            LET was == n \in DOMAIN tree /\ tree[n].checked_for_terminal_moves
                before == IF n \in DOMAIN tree THEN tree[n].untried_moves
                          ELSE TTTGetMoves(StateOfName(n))
                ending == {m \in before : EndsGame(n, m)}
                kept == IF ending # {} THEN ending ELSE before
            IN /\ was => tree'[n].checked_for_terminal_moves
               /\ (~was /\ tree'[n].checked_for_terminal_moves) =>
                    /\ pc = "select" /\ n \in {node, node'}
                    /\ tree'[n].untried_moves \subseteq kept
                    /\ n = node' => tree'[n].untried_moves = kept
                    /\ n = node =>
                         /\ Cardinality(kept \ tree'[n].untried_moves) <= 1
                         /\ pc' # "raised" =>
                              Cardinality(kept \ tree'[n].untried_moves) = 1
               /\ (pc = "select" /\ ~SelectingGT /\ pc' # "raised"
                     /\ tree[node].untried_moves # {}) =>
                    /\ tree'[node].checked_for_terminal_moves
                    /\ tree'[node'].checked_for_terminal_moves]_vars

\* A checked record that kept all its untried moves, none of which ends
\* the game, and a checked record whose untried moves were cut down to the
\* one that ends the game.
C18_Witness ==
  /\ engine = "MCTS" /\ early_end_possible
  /\ \E a, b \in DOMAIN tree :
       /\ tree[a].checked_for_terminal_moves
       /\ tree[a].untried_moves # {} /\ TerminalMoves(tree, a) = {}
       /\ tree[b].checked_for_terminal_moves
       /\ tree[b].untried_moves # {}
       /\ TerminalMoves(tree, b) = tree[b].untried_moves
       /\ DOMAIN tree[b].tried_moves \cup tree[b].untried_moves
            # TTTGetMoves(StateOfName(b))

(***************************************************************************)
(* C19.  In MCTS with early_end_possible false, every record is created    *)
(* with checked_for_terminal_moves true, so that check_for_terminal_move   *)
(* is never run and no step takes more out of a record's untried moves     *)
(* than the move it adds to its tried moves; at all times the tried moves  *)
(* and the untried moves of a record are disjoint and together are the     *)
(* legal moves of its position.                                            *)
(***************************************************************************)
C19_TriedAndUntriedPartitionMoves ==
  /\ []((engine = "MCTS" /\ ~early_end_possible) =>
          \A n \in DOMAIN tree :
            /\ tree[n].checked_for_terminal_moves
            /\ DOMAIN tree[n].tried_moves \cap tree[n].untried_moves = {}
            /\ DOMAIN tree[n].tried_moves \cup tree[n].untried_moves
                 = TTTGetMoves(StateOfName(n)))
  /\ [][(engine = "MCTS" /\ ~early_end_possible) =>
          \A n \in DOMAIN tree :
            /\ tree'[n].untried_moves \subseteq tree[n].untried_moves
            /\ tree[n].untried_moves \ tree'[n].untried_moves
                 = DOMAIN tree'[n].tried_moves \ DOMAIN tree[n].tried_moves]_vars

\* Without early detection, a record with two tried moves and one still
\* untried, one of the tried moves ending the game at once.
C19_Witness ==
  /\ engine = "MCTS" /\ ~early_end_possible
  /\ \E n \in DOMAIN tree :
       /\ Cardinality(DOMAIN tree[n].tried_moves) >= 2
       /\ tree[n].untried_moves # {}
       /\ \E m \in DOMAIN tree[n].tried_moves : EndsGame(n, m)
       /\ \E m \in DOMAIN tree[n].tried_moves : ~EndsGame(n, m)

(***************************************************************************)
(* C20.  In MCTS called on a fresh graph, between two iterations every     *)
(* visited record with tried moves has the EVs of one of its tried         *)
(* children, one whose entry for the record's own mover is the largest     *)
(* among all its tried children (records with several parents and          *)
(* children reached on another path included), and every visited record    *)
(* of a finished game has the result of its position as EVs.               *)
(***************************************************************************)
C20_EVsAreBestChildEVs ==
  (engine = "MCTS" /\ Fresh /\ MCTSBoundary) =>
    \A n \in DOMAIN tree :
      tree[n].visits >= 1 =>
        LET w == tree[n].whose_move IN
        /\ DOMAIN tree[n].tried_moves # {} =>
             \E c \in Children(tree, n) :
               /\ tree[n].EVs = tree[c].EVs
               /\ \A d \in Children(tree, n) :
                    /\ w \in DOMAIN tree[d].EVs
                    /\ tree[d].EVs[w] <= tree[c].EVs[w]
        /\ StateOfName(n).game_over =>
             tree[n].EVs = TTTGetResult(StateOfName(n))

\* Between two iterations of a call on a fresh graph: a record with two
\* parents, a record whose tried children differ in its own mover's entry,
\* and a visited record of a finished game.
C20_Witness ==
  /\ engine = "MCTS" /\ Fresh /\ MCTSBoundary /\ iter >= 2
  /\ \E n, p, e \in DOMAIN tree :
       /\ Cardinality(tree[n].parents) >= 2 /\ tree[n].visits >= 1
       /\ \E c, d \in Children(tree, p) :
            tree[c].EVs[tree[p].whose_move] < tree[d].EVs[tree[p].whose_move]
       /\ tree[p].visits >= 1
       /\ StateOfName(e).game_over /\ tree[e].visits >= 1

(***************************************************************************)
(* C21.  In both engines a child is selected only on a node that has a     *)
(* child, and whenever the Select loop or the final choice of the move     *)
(* evaluates the children of a node, the node and each child have          *)
(* visits >= 1 and, in MCTS, each child's EVs has an entry for the node's  *)
(* mover: no division by zero, no log of zero, no missing key.             *)
(***************************************************************************)
C21_SelectionKeysDefined ==
  /\ (engine = "UCT" /\ pc = "select" /\ Selecting) =>
       /\ tree[node].childNodes # <<>>
       /\ KeysDefined(tree, node)
  /\ (engine = "UCT" /\ pc = "return" /\ tree[rootnode].childNodes # <<>>) =>
       KeysDefined(tree, rootnode)
  /\ (engine = "MCTS" /\ pc = "select" /\ SelectingGT) =>
       /\ Children(tree, node) # {}
       /\ KeysDefinedGT(tree, node, "EV_UCB1", tree[node].whose_move)
  /\ (engine = "MCTS" /\ pc = "return" /\ Children(tree, root_node) # {}) =>
       /\ KeysDefinedGT(tree, root_node, "EV_UCB1", tree[root_node].whose_move)
       /\ KeysDefinedGT(tree, root_node, "EV_UCB1", rootstate.whose_move)
  /\ (pc = "returned" /\ engine = "UCT") => KeysDefined(tree, rootnode)
  /\ (pc = "returned" /\ engine = "MCTS") =>
       KeysDefinedGT(tree, root_node, "EV_UCB1", rootstate.whose_move)

\* MCTS is about to select by EV_UCB1 among the children of a node, one of
\* them visited once and one more often.
C21_Witness ==
  /\ engine = "MCTS" /\ pc = "select" /\ SelectingGT
  /\ method = "EV_UCB1"
  /\ \E c, d \in Children(tree, node) :
       tree[c].visits = 1 /\ tree[d].visits >= 2

\* The move ends the game when made in the root state.
RootEnding(move) == TTTDoMove(TTTClone(rootstate), move).game_over

(***************************************************************************)
(* C22.  MCTS called on a fresh graph with early_end_possible, on a root   *)
(* that is not terminal and has a legal move that ends the game at once:   *)
(* whatever the number of iterations, the method and the random choices,   *)
(* the call does not fail, only moves that end the game are ever expanded  *)
(* from the root, and the move returned ends the game at once, by a line   *)
(* of the root's mover or by filling the last empty cell.                  *)
(***************************************************************************)
C22_ReturnsGameEndingMove ==
  (/\ engine = "MCTS" /\ Fresh /\ early_end_possible /\ ~RootTerminal
   /\ \E m \in TTTGetMoves(rootstate) : RootEnding(m)) =>
    /\ pc # "raised"
    /\ root_node \in DOMAIN tree =>
         \A m \in DOMAIN tree[root_node].tried_moves : RootEnding(m)
    /\ pc = "returned" =>
         LET after == TTTDoMove(TTTClone(rootstate), outcome) IN
         /\ outcome \in TTTGetMoves(rootstate)
         /\ after.game_over
         /\ \/ TTTGetResult(after)[rootstate.whose_move] = 2
            \/ \A c \in Cells : after.board[c] # 0

\* Such a call has returned after two iterations or more, on a root that
\* also has a legal move that does not end the game.
C22_Witness ==
  /\ engine = "MCTS" /\ Fresh /\ early_end_possible /\ ~RootTerminal
  /\ pc = "returned" /\ iter >= 2
  /\ RootEnding(outcome)
  /\ \E m \in TTTGetMoves(rootstate) : ~RootEnding(m)

(***************************************************************************)
(* C23.  In MCTS called on a fresh graph, all through the Select, Expand   *)
(* and Simulate phases of every iteration: node is the name of the working *)
(* state, the record's whose_move is the state's, every move the phases    *)
(* can choose (a tried move in Select, an untried one in Expand, the one   *)
(* get_random_move returns in Simulate, never None while the game goes on) *)
(* is a legal move of the state.  So the assertions of create_node,        *)
(* check_for_terminal_move and do_move hold: no step of these phases       *)
(* fails, and a call on a root that is not terminal fails nowhere.         *)
(***************************************************************************)
C23_NodeIsNameOfState ==
  /\ []((engine = "MCTS" /\ Fresh /\ pc \in {"select", "simulate"}) =>
          /\ node = ToName(state)
          /\ tree[node].whose_move = state.whose_move
          /\ tree[node].untried_moves \subseteq TTTGetMoves(state)
          /\ DOMAIN tree[node].tried_moves \subseteq TTTGetMoves(state)
          /\ \A m \in TTTGetMoves(state) :
               /\ TTTMoveAccepted(state, m)
               /\ CreateNodeAccepted(tree, TTTDoMove(state, m))
          /\ ~tree[node].checked_for_terminal_moves =>
               TerminalCheckAccepted(tree, node, state)
          /\ pc = "simulate" =>
               ~state.game_over /\ GetRandomMove(tree, node) # {})
  /\ [][(engine = "MCTS" /\ Fresh /\ pc' = "raised") =>
          pc \in {"backprop", "return"}]_vars
  /\ []((engine = "MCTS" /\ Fresh /\ ~RootTerminal) => pc # "raised")

\* Simulate is two plies below the root and its next move leads, on a path
\* not taken before, to a record that an earlier iteration made: create_node
\* will find the name in the tree and compare whose_move.
C23_Witness ==
  /\ engine = "MCTS" /\ Fresh /\ pc = "simulate"
  /\ Len(path) >= 3
  /\ \E m \in GetRandomMove(tree, node) :
       /\ m \notin DOMAIN tree[node].tried_moves
       /\ ToName(TTTDoMove(state, m)) \in DOMAIN tree

\* The player who made the last move of the position called name: player 1
\* moves first, so it is player 1 exactly when the board holds more 1s than
\* 2s.
LastMover(name) ==
  LET b == StateOfName(name).board IN
  IF Cardinality({c \in Cells : b[c] = 1}) > Cardinality({c \in Cells : b[c] = 2})
  THEN 1 ELSE 2

(***************************************************************************)
(* C24.  In MCTS called on a fresh graph, all parents of a record have the *)
(* same whose_move, the player who moved into the record's position, so    *)
(* that update_node credits the same perspective whichever parent it       *)
(* draws: each update of a record below the root adds the result for the   *)
(* player who moved into its position to its wins, each update of the root *)
(* adds the result for the root's own mover, and no other step changes a   *)
(* record's wins.                                                          *)
(***************************************************************************)
C24_OnePerspectivePerRecord ==
  /\ []((engine = "MCTS" /\ Fresh) =>
          \A n \in DOMAIN tree :
            /\ \A p \in tree[n].parents : tree[p].whose_move = LastMover(n)
            /\ Cardinality(Perspectives(tree, n)) = 1
            /\ n = root_node => tree[n].parents = {}
            /\ n # root_node => tree[n].parents # {})
  /\ [][(engine = "MCTS" /\ Fresh /\ pc # "root") =>
          \A n \in DOMAIN tree :
            IF pc = "backprop" /\ to_update # <<>> /\ n = Head(to_update)
                 /\ pc' # "raised"
            THEN /\ tree'[n].visits = tree[n].visits + 1
                 /\ tree'[n].wins = tree[n].wins
                      + result[IF n = root_node THEN tree[n].whose_move
                               ELSE LastMover(n)]
            ELSE pc' # "raised" => tree'[n].wins = tree[n].wins]_vars

\* Backpropagation is about to update a record with two parents, with a
\* result that one player won.
C24_Witness ==
  /\ engine = "MCTS" /\ Fresh /\ pc = "backprop" /\ to_update # <<>>
  /\ Cardinality(tree[Head(to_update)].parents) >= 2
  /\ result \in {P1Wins, P2Wins}

SpecGame == InitGame /\ [][NextGame]_vars

\* The step just taken was a call of DoMove / do_move, of last'.move on the
\* object last'.on.
CalledDoMove == last'.op = "DoMove"

\* The player whose turn it is.
Mover(o) == IF klass = "OXOState" THEN 3 - o.playerJustMoved ELSE o.whose_move

\* Some line of three is complete or no cell is empty.
LineOrFull(board) == FirstLine(board) # 0 \/ \A c \in Cells : board[c] # 0

(***************************************************************************)
(* C2.  Whenever doMove is called with a move that is not currently legal  *)
(* (the index is out of bounds, the cell is occupied, or the game is       *)
(* already over, a won position with empty cells included), the call       *)
(* fails with an error and board, mover, terminal flag and legal moves of  *)
(* the receiver are what they were.                                        *)
(***************************************************************************)
C2_IllegalMoveFailsUnchanged ==
  [][LET on == last'.on
         pre == Observe(Receiver(on), heap)
         post == Observe(IF on = "orig" THEN orig' ELSE twin', heap')
     IN (CalledDoMove /\ last'.move \notin pre.moves)
          => (last'.raised /\ post = pre)]_vars

(***************************************************************************)
(* C6.  In every state reached from the empty board by legal doMove calls, *)
(* legalMoves() is empty exactly when result() is defined, which is        *)
(* exactly when some line of three is complete or the board is full.       *)
(***************************************************************************)
C6_MovesEmptyIffResult ==
  overMoves = 0 =>
    LET s == Observe(orig, heap) IN
    /\ (s.moves = {}) <=> s.result
    /\ s.result <=> LineOrFull(s.board)

\* A game won by a complete line while cells are still empty.
C6_Witness ==
  /\ overMoves = 0
  /\ twin = Unbound
  /\ LET s == Observe(orig, heap) IN
     /\ s.moves = {}
     /\ s.result
     /\ FirstLine(s.board) # 0
     /\ \E c \in Cells : s.board[c] = 0

(***************************************************************************)
(* C7.  Right after clone, the copy is observably equal to the original    *)
(* (board, mover, terminal status, legal moves), terminal originals        *)
(* included, and shares no container with it.                              *)
(***************************************************************************)
C7_CloneEqualAndIndependent ==
  last.op = "Clone" =>
    /\ Observe(twin, heap) = Observe(orig, heap)
    /\ twin.board # orig.board
    /\ klass = "TicTacToe" => twin.available_moves # orig.available_moves

(***************************************************************************)
(* C8.  After a doMove(m) that succeeds on a state that is not terminal,   *)
(* m is no longer a legal move, cell m holds the mark of the player who    *)
(* moved, the mover is the other player or the game is over, and doMove(m) *)
(* again fails.                                                            *)
(***************************************************************************)
C8_MoveTakenOnce ==
  [][LET on == last'.on
         move == last'.move
         pre == Receiver(on)
         post == IF on = "orig" THEN orig' ELSE twin'
         after == Observe(post, heap')
     IN (/\ CalledDoMove
         /\ ~last'.raised
         /\ ~Observe(pre, heap).terminal)
          => /\ move \notin after.moves
             /\ after.board[move] = Mover(pre)
             /\ after.terminal \/ Mover(post) = 3 - Mover(pre)
             /\ ~MoveAccepted(post, heap', move)]_vars

\* A move was applied to a game that goes on after it.
C8_Witness ==
  /\ last.op = "DoMove"
  /\ ~last.raised
  /\ overMoves = 0
  /\ ~Observe(Receiver(last.on), heap).terminal
  /\ last.move \notin Observe(Receiver(last.on), heap).moves

====
